---- MODULE Spec2Model ----
(***************************************************************************)
(* A model of the MedASR transcription core (server/transcribe.py):        *)
(*   - the greedy CTC collapse and the text clean-up of transcribe,        *)
(*   - the chunked path transcribe_chunks,                                 *)
(*   - the lazily loaded, process-wide MedASRTranscriber and its callers.  *)
(*                                                                         *)
(* Text is a sequence of one-character strings; a waveform is its sample   *)
(* count and its peak absolute amplitude in millionths of full scale.      *)
(***************************************************************************)
EXTENDS Integers, Sequences, FiniteSets, TLC

\* ------------------------------------------------------------------ bounds
\* Longest sequence of predicted token ids explored by SpecDecode.
MaxLen == 5
\* Longest sequence of predicted token ids a service call may see.
MaxServiceLen == 1
\* Number of invocations of the acoustic model in one behaviour of Spec.
MaxInfer == 2

\* --------------------------------------------------------------- constants
\* librosa.load(..., sr=16000)
SampleRate == 16000
\* duration < 0.1, as a fraction 1 / MinDurationDen of a second
MinDurationDen == 10
\* max_amplitude < 0.001, in millionths of full scale
SilenceMicro == 1000

\* ------------------------------------------------------------- vocabulary
\* Token ids of the model's vocabulary.
TokenIds == 0 .. 4

\* The textual fragment of one token; token 0 is the special pad token,
\* which skip_special_tokens=True leaves out.
Fragment(token_id) ==
    CASE token_id = 1 -> <<"a">>
      [] token_id = 2 -> <<" ">>
      [] token_id = 3 -> <<"<">>
      [] token_id = 4 -> <<">">>
      [] OTHER -> <<>>

\* processor.tokenizer.pad_token_id: <<>> is None, <<k>> is the id k.
PadTokenIds == {<<>>, <<0>>, <<1>>}

\* blank_id = self.processor.tokenizer.pad_token_id or 0
BlankId(pad) == IF pad = <<>> \/ pad = <<0>> THEN 0 ELSE pad[1]

\* All sequences over S of length at most n.
SeqsUpTo(S, n) == UNION {[1 .. k -> S] : k \in 0 .. n}

\* ------------------------------------------------------ greedy CTC collapse
\* The loop's emission test; prev_id is <<>> for None, <<k>> for the id k.
EmitsIgnoringPrev(token_id, blank_id, prev_id) == token_id # blank_id

Emits(token_id, blank_id, prev_id) ==
    token_id # blank_id /\ <<token_id>> # prev_id

\* The value of prev_id after one iteration.
PrevKeptOnBlank(token_id, blank_id, prev_id) ==
    IF token_id = blank_id THEN prev_id ELSE <<token_id>>

PrevAfter(token_id, blank_id, prev_id) == <<token_id>>

\* for token_id in predicted_ids[0].tolist(): ...
RECURSIVE CtcLoop(_, _, _, _, _)
CtcLoop(ids, blank_id, i, prev_id, collapsed) ==
    IF i > Len(ids)
    THEN collapsed
    ELSE CtcLoop(ids, blank_id, i + 1,
                 PrevAfter(ids[i], blank_id, prev_id),
                 IF Emits(ids[i], blank_id, prev_id)
                 THEN Append(collapsed, ids[i])
                 ELSE collapsed)

\* collapsed_ids = []; prev_id = None; the loop
CtcCollapse(ids, blank_id) == CtcLoop(ids, blank_id, 1, <<>>, <<>>)

\* ------------------------------------------------------------ text clean-up
\* tokenizer.decode(collapsed_ids, skip_special_tokens=True): the fragments joined.
RECURSIVE TokenizerDecode(_)
TokenizerDecode(ids) ==
    IF ids = <<>> THEN <<>> ELSE Fragment(Head(ids)) \o TokenizerDecode(Tail(ids))

IsSpace(c) == c = " "

\* str.strip()
RECURSIVE LStrip(_)
LStrip(s) == IF s # <<>> /\ IsSpace(Head(s)) THEN LStrip(Tail(s)) ELSE s

RECURSIVE RStrip(_)
RStrip(s) ==
    IF s # <<>> /\ IsSpace(s[Len(s)]) THEN RStrip(SubSeq(s, 1, Len(s) - 1)) ELSE s

Strip(s) == RStrip(LStrip(s))

\* Index of the first ">" of s at or after position i; 0 when there is none.
RECURSIVE FirstGt(_, _)
FirstGt(s, i) ==
    IF i > Len(s) THEN 0 ELSE IF s[i] = ">" THEN i ELSE FirstGt(s, i + 1)

\* re.sub(r'<[^>]+>', '', text): leftmost, non-overlapping matches; at a "<" the
\* match runs to the first following ">", and needs one character in between.
RECURSIVE RemoveTags(_)
RemoveTags(s) ==
    IF s = <<>> THEN <<>>
    ELSE IF Head(s) = "<" /\ FirstGt(s, 2) >= 3
         THEN RemoveTags(SubSeq(s, FirstGt(s, 2) + 1, Len(s)))
         ELSE <<Head(s)>> \o RemoveTags(Tail(s))

\* re.sub(r'\s+', ' ', text): every maximal run of whitespace becomes one space.
RECURSIVE CollapseSpaces(_)
CollapseSpaces(s) ==
    IF Len(s) <= 1 THEN s
    ELSE IF IsSpace(s[1]) /\ IsSpace(s[2])
         THEN CollapseSpaces(Tail(s))
         ELSE <<s[1]>> \o CollapseSpaces(Tail(s))

\* text.strip(); the two re.sub calls; text.strip()
CleanText(raw) == Strip(CollapseSpaces(RemoveTags(Strip(raw))))

\* The text transcribe returns for the predicted ids of one waveform.
TranscribeText(ids, pad) == CleanText(TokenizerDecode(CtcCollapse(ids, BlankId(pad))))

\* The result of pipe(audio, ...) on a waveform of a single chunk: a dict that
\* holds the pipeline's decoded text under "text", or holds no "text" key.
PipeResult(ids, pad, has_text) ==
    [has_text |-> has_text,
     text |-> IF has_text THEN TokenizerDecode(CtcCollapse(ids, BlankId(pad))) ELSE <<>>]

\* result.get("text", "").strip()
ChunksText(result) == Strip(IF result.has_text THEN result.text ELSE <<>>)

\* ------------------------------------------------------------------- state
VARIABLES
    \* the decoding path of one waveform, taken on its own (SpecDecode)
    predicted_ids,    \* torch.argmax(logits, dim=-1)[0].tolist()
    pad_token_id,     \* processor.tokenizer.pad_token_id
    collapsed_ids,    \* collapsed_ids after the loop
    text,             \* the text transcribe returns
    chunk_result,     \* the dict pipe(...) returns
    chunk_text,       \* the text transcribe_chunks returns
    dpc,              \* position in the decoding path
    \* the shared MedASRTranscriber and its callers (Spec)
    device,           \* self.device
    processor,        \* self.processor: "None" or "processor"
    model,            \* self.model: whether set, where it resides, whether eval() ran
    loaded,           \* self._loaded
    pc,               \* each caller's position
    op,               \* the operation each caller is in
    audio,            \* the waveform librosa.load gave the call: <<>> before it is read
    outcome,          \* how the call ended
    inferCount,       \* number of invocations of the acoustic model so far
    usedPartial       \* an inference ran on a model whose initialisation was incomplete

decVars == <<predicted_ids, pad_token_id, collapsed_ids, text, chunk_result, chunk_text, dpc>>
svcVars == <<device, processor, model, loaded, pc, op, audio, outcome, inferCount, usedPartial>>
vars == <<decVars, svcVars>>

Threads == {"t1", "t2"}
Devices == {"cpu", "mps", "cuda"}
Ops == {"transcribe", "transcribe_chunks", "load_model"}

\* self.model = None
NoModel == [set |-> FALSE, dev |-> "none", evald |-> FALSE]
\* AutoModelForCTC.from_pretrained(self.model_id): a new module, on the CPU
FreshModel == [set |-> TRUE, dev |-> "cpu", evald |-> FALSE]

NoOutcome == [kind |-> "none", text |-> <<>>, fault |-> "none"]
Raised(kind, fault) == [kind |-> kind, text |-> <<>>, fault |-> fault]
Returned(t, fault) == [kind |-> "ok", text |-> t, fault |-> fault]

\* Waveforms: sample count n at 16 kHz, peak absolute amplitude in millionths.
Waveforms ==
    {[n |-> 0, peak |-> 0]}
    \cup [n : {1599, 1600}, peak : {0, 999, 1000}]

ServiceIds == SeqsUpTo(0 .. 2, MaxServiceLen)

\* ---------------------------------------------------------------- validation
\* The three checks of transcribe, in the order silent, empty, too short.
ValidateSilentFirst(a) ==
    IF a.n > 0 /\ a.peak < SilenceMicro THEN "SilentAudioError"
    ELSE IF a.n = 0 THEN "EmptyAudioError"
    ELSE IF a.n * MinDurationDen < SampleRate THEN "TooShortAudioError"
    ELSE "ok"

\* len(audio) == 0; duration = len(audio) / sr < 0.1; max_amplitude < 0.001
Validate(a) ==
    IF a.n = 0 THEN "EmptyAudioError"
    ELSE IF a.n * MinDurationDen < SampleRate THEN "TooShortAudioError"
    ELSE IF a.peak < SilenceMicro THEN "SilentAudioError"
    ELSE "ok"

\* device=self.device if self.device != "mps" else "cpu"
PipeDevice(d) == IF d # "mps" THEN d ELSE "cpu"

\* ------------------------------------------------------------ initial states
DecIdle ==
    /\ predicted_ids = <<>>
    /\ pad_token_id = <<>>
    /\ collapsed_ids = <<>>
    /\ text = <<>>
    /\ chunk_result = [has_text |-> FALSE, text |-> <<>>]
    /\ chunk_text = <<>>
    /\ dpc = "off"

\* MedASRTranscriber.__init__
SvcInit ==
    /\ device \in Devices
    /\ processor = "None"
    /\ model = NoModel
    /\ loaded = FALSE
    /\ pc = [t \in Threads |-> "idle"]
    /\ op = [t \in Threads |-> "none"]
    /\ audio = [t \in Threads |-> <<>>]
    /\ outcome = [t \in Threads |-> NoOutcome]
    /\ inferCount = 0
    /\ usedPartial = FALSE

Init == DecIdle /\ SvcInit

InitDecode ==
    /\ SvcInit
    /\ predicted_ids \in SeqsUpTo(TokenIds, MaxLen)
    /\ pad_token_id \in PadTokenIds
    /\ collapsed_ids = <<>>
    /\ text = <<>>
    /\ chunk_result = [has_text |-> FALSE, text |-> <<>>]
    /\ chunk_text = <<>>
    /\ dpc = "start"

\* ------------------------------------------------------ the decoding path
\* transcribe, lines 119-129: blank_id and the collapse loop
Collapse ==
    /\ dpc = "start"
    /\ collapsed_ids' = CtcCollapse(predicted_ids, BlankId(pad_token_id))
    /\ dpc' = "collapsed"
    /\ UNCHANGED <<predicted_ids, pad_token_id, text, chunk_result, chunk_text, svcVars>>

\* transcribe, lines 131-143: decode, strip, clean up, return
Clean ==
    /\ dpc = "collapsed"
    /\ text' = CleanText(TokenizerDecode(collapsed_ids))
    /\ dpc' = "cleaned"
    /\ UNCHANGED <<predicted_ids, pad_token_id, collapsed_ids, chunk_result, chunk_text, svcVars>>

\* transcribe_chunks, lines 176-185, on the same waveform
Chunks ==
    /\ dpc = "cleaned"
    /\ \E has_text \in BOOLEAN :
          /\ chunk_result' = PipeResult(predicted_ids, pad_token_id, has_text)
          /\ chunk_text' = ChunksText(chunk_result')
    /\ dpc' = "done"
    /\ UNCHANGED <<predicted_ids, pad_token_id, collapsed_ids, text, svcVars>>

NextDecode == Collapse \/ Clean \/ Chunks

SpecDecode == InitDecode /\ [][NextDecode]_vars

\* ------------------------------------------------- the transcription service
LoadBodyPcs == {"ld_processor", "ld_model", "ld_to", "ld_eval", "ld_set"}

\* Callers that have started a call and not yet reached the end of it.
InFlight == {u \in Threads : pc[u] \notin {"idle", "done"}}

\* Where load_model returns to: the body of the operation that called it.
AfterLoad(t) == IF op[t] = "load_model" THEN "done" ELSE "body"

Finish(t, o) ==
    /\ pc' = [pc EXCEPT ![t] = "done"]
    /\ outcome' = [outcome EXCEPT ![t] = o]

\* A caller enters transcribe or transcribe_chunks (if not self._loaded:
\* self.load_model()), or calls load_model itself.
Call(t, o) ==
    /\ pc[t] = "idle"
    /\ inferCount + Cardinality(InFlight) < MaxInfer
    /\ op' = [op EXCEPT ![t] = o]
    /\ pc' = [pc EXCEPT ![t] =
                 IF o = "load_model" \/ ~loaded THEN "load_check" ELSE "body"]
    /\ UNCHANGED <<decVars, device, processor, model, loaded, audio, outcome,
                   inferCount, usedPartial>>

\* load_model: if self._loaded: return
LoadCheck(t) ==
    /\ pc[t] = "load_check"
    /\ IF loaded
       THEN IF op[t] = "load_model"
            THEN Finish(t, Returned(<<>>, "none"))
            ELSE pc' = [pc EXCEPT ![t] = "body"] /\ UNCHANGED outcome
       ELSE pc' = [pc EXCEPT ![t] = "ld_processor"] /\ UNCHANGED outcome
    /\ UNCHANGED <<decVars, device, processor, model, loaded, op, audio,
                   inferCount, usedPartial>>

\* self.processor = AutoProcessor.from_pretrained(self.model_id)
LoadProcessor(t) ==
    /\ pc[t] = "ld_processor"
    /\ \E ok \in BOOLEAN :
          IF ok
          THEN /\ processor' = "processor"
               /\ pc' = [pc EXCEPT ![t] = "ld_model"]
               /\ UNCHANGED outcome
          ELSE /\ Finish(t, Raised("ModelLoadError", "load"))
               /\ UNCHANGED processor
    /\ UNCHANGED <<decVars, device, model, loaded, op, audio, inferCount, usedPartial>>

\* self.model = AutoModelForCTC.from_pretrained(self.model_id)
LoadModel(t) ==
    /\ pc[t] = "ld_model"
    /\ \E ok \in BOOLEAN :
          IF ok
          THEN /\ model' = FreshModel
               /\ pc' = [pc EXCEPT ![t] = "ld_to"]
               /\ UNCHANGED outcome
          ELSE /\ Finish(t, Raised("ModelLoadError", "load"))
               /\ UNCHANGED model
    /\ UNCHANGED <<decVars, device, processor, loaded, op, audio, inferCount,
                   usedPartial>>

\* self.model.to(self.device)
LoadTo(t) ==
    /\ pc[t] = "ld_to"
    /\ \E ok \in BOOLEAN :
          IF ok
          THEN /\ model' = [model EXCEPT !.dev = device]
               /\ pc' = [pc EXCEPT ![t] = "ld_eval"]
               /\ UNCHANGED outcome
          ELSE /\ Finish(t, Raised("ModelLoadError", "load"))
               /\ UNCHANGED model
    /\ UNCHANGED <<decVars, device, processor, loaded, op, audio, inferCount,
                   usedPartial>>

\* self.model.eval()
LoadEval(t) ==
    /\ pc[t] = "ld_eval"
    /\ model' = [model EXCEPT !.evald = TRUE]
    /\ pc' = [pc EXCEPT ![t] = "ld_set"]
    /\ UNCHANGED <<decVars, device, processor, loaded, op, audio, outcome,
                   inferCount, usedPartial>>

\* self._loaded = True, and the return from load_model
LoadSetLoaded(t) ==
    /\ pc[t] = "ld_set"
    /\ loaded' = TRUE
    /\ IF op[t] = "load_model"
       THEN Finish(t, Returned(<<>>, "none"))
       ELSE pc' = [pc EXCEPT ![t] = "body"] /\ UNCHANGED outcome
    /\ UNCHANGED <<decVars, device, processor, model, op, audio, inferCount,
                   usedPartial>>

\* The forward pass can run: a model is set and resides where the inputs go.
CanInfer(inputDevice) == processor # "None" /\ model.set /\ model.dev = inputDevice

\* transcribe, lines 76-143: read the audio, validate it, run the model on
\* inputs moved to self.device, decode and clean the text.
TranscribeBody(t) ==
    /\ pc[t] = "body"
    /\ op[t] = "transcribe"
    /\ \E a \in Waveforms, ids \in ServiceIds, pad \in PadTokenIds, raises \in BOOLEAN :
          /\ audio' = [audio EXCEPT ![t] = <<a>>]
          /\ IF Validate(a) # "ok"
             THEN /\ Finish(t, Raised(Validate(a), "validation"))
                  /\ UNCHANGED <<inferCount, usedPartial>>
             ELSE /\ inferCount' = inferCount + 1
                  /\ usedPartial' = (usedPartial \/ ~model.evald)
                  /\ IF raises \/ ~CanInfer(device)
                     THEN Finish(t, Raised("InferenceError", "inference"))
                     ELSE Finish(t, Returned(TranscribeText(ids, pad), "none"))
    /\ UNCHANGED <<decVars, device, processor, model, loaded, op>>

\* transcribe_chunks, lines 160-185: build the pipeline around self.model on
\* PipeDevice(self.device), which places the module there, read the audio,
\* run the pipeline on it and return the stripped text of its result.
ChunksBody(t) ==
    /\ pc[t] = "body"
    /\ op[t] = "transcribe_chunks"
    /\ model' = IF model.set THEN [model EXCEPT !.dev = PipeDevice(device)] ELSE model
    /\ \E a \in Waveforms, ids \in ServiceIds, pad \in PadTokenIds,
          r \in {"text", "no_text", "raises"} :
          /\ audio' = [audio EXCEPT ![t] = <<a>>]
          /\ inferCount' = inferCount + 1
          /\ usedPartial' = (usedPartial \/ ~model.evald)
          /\ CASE r = "raises" -> Finish(t, Raised("InferenceError", "inference"))
               [] r = "no_text" ->
                     Finish(t, Returned(ChunksText(PipeResult(ids, pad, FALSE)), "no_text"))
               [] OTHER ->
                     Finish(t, Returned(ChunksText(PipeResult(ids, pad, TRUE)), "none"))
    /\ UNCHANGED <<decVars, device, processor, loaded, op>>

\* The caller takes the result or the exception and is free for another call.
Return(t) ==
    /\ pc[t] = "done"
    /\ pc' = [pc EXCEPT ![t] = "idle"]
    /\ op' = [op EXCEPT ![t] = "none"]
    /\ audio' = [audio EXCEPT ![t] = <<>>]
    /\ outcome' = [outcome EXCEPT ![t] = NoOutcome]
    /\ UNCHANGED <<decVars, device, processor, model, loaded, inferCount, usedPartial>>

Next ==
    \E t \in Threads :
        \/ \E o \in Ops : Call(t, o)
        \/ LoadCheck(t)
        \/ LoadProcessor(t)
        \/ LoadModel(t)
        \/ LoadTo(t)
        \/ LoadEval(t)
        \/ LoadSetLoaded(t)
        \/ TranscribeBody(t)
        \/ ChunksBody(t)
        \/ Return(t)

Spec == Init /\ [][Next]_vars

\* ------------------------------------------------------------------ claims
\* Reference definitions the claims are stated with.
RECURSIVE RunLengthCollapse(_)
RunLengthCollapse(S) ==
    IF Len(S) <= 1 THEN S
    ELSE IF S[1] = S[2]
         THEN RunLengthCollapse(Tail(S))
         ELSE <<S[1]>> \o RunLengthCollapse(Tail(S))

WithoutBlank(S, b) == SelectSeq(S, LAMBDA x : x # b)

Collapsed == dpc \in {"collapsed", "cleaned", "done"}

\* C1: the ids the greedy CTC loop emits are the run-length-collapsed predicted
\* ids with every blank removed; an empty or all-blank sequence emits nothing.
C1_GreedyCollapse ==
    Collapsed =>
        LET b == BlankId(pad_token_id) IN
        /\ collapsed_ids = WithoutBlank(RunLengthCollapse(predicted_ids), b)
        /\ (\A i \in DOMAIN predicted_ids : predicted_ids[i] = b) => collapsed_ids = <<>>

C1_Witness ==
    /\ dpc = "done"
    /\ pad_token_id = <<0>>
    /\ predicted_ids = <<0, 3, 3, 0, 4>>
    /\ collapsed_ids = <<3, 4>>

\* C10 as stated: the emitted ids never hold two adjacent identical ids.
C10_NoAdjacentEqual ==
    Collapsed =>
        \A i \in 1 .. Len(collapsed_ids) - 1 : collapsed_ids[i] # collapsed_ids[i + 1]

\* C10 as amended: two adjacent identical emitted ids occur only where a blank
\* stood between two occurrences of that id in the predicted ids.
C10_AdjacentEqualOnlyAcrossBlank ==
    Collapsed =>
        \A i \in 1 .. Len(collapsed_ids) - 1 :
            collapsed_ids[i] = collapsed_ids[i + 1] =>
                \E j, k, l \in DOMAIN predicted_ids :
                    /\ j < k /\ k < l
                    /\ predicted_ids[j] = collapsed_ids[i]
                    /\ predicted_ids[k] = BlankId(pad_token_id)
                    /\ predicted_ids[l] = collapsed_ids[i]

C10_Witness ==
    /\ dpc = "done"
    /\ pad_token_id = <<0>>
    /\ predicted_ids = <<1, 0, 1>>
    /\ collapsed_ids = <<1, 1>>

\* C7: for a waveform of a single chunk whose pipeline result carries a text,
\* transcribe_chunks returns the text transcribe returns.
C7_ChunkedEqualsSingle ==
    (dpc = "done" /\ chunk_result.has_text) => chunk_text = text

\* The step in which caller t runs the body of operation o to its end.
BodyStep(t, o) == pc[t] = "body" /\ op[t] = o /\ pc'[t] = "done"

\* C4: transcribe decides empty, then too short, then silent, each without a
\* call of the acoustic model; only a waveform passing all three reaches it.
C4_ValidationOrder ==
    [][\A t \in Threads :
          BodyStep(t, "transcribe") =>
              LET a == audio'[t][1]
                  k == outcome'[t].kind
              IN  /\ a.n = 0 =>
                        k = "EmptyAudioError" /\ inferCount' = inferCount
                  /\ (a.n > 0 /\ a.n * 10 < 16000) =>
                        k = "TooShortAudioError" /\ inferCount' = inferCount
                  /\ (a.n * 10 >= 16000 /\ a.peak < 1000) =>
                        k = "SilentAudioError" /\ inferCount' = inferCount
                  /\ (a.n * 10 >= 16000 /\ a.peak >= 1000) =>
                        k \in {"ok", "InferenceError"} /\ inferCount' = inferCount + 1
     ]_vars

C4_Witness ==
    \E t \in Threads :
        /\ pc[t] = "done"
        /\ op[t] = "transcribe"
        /\ audio[t] = <<[n |-> 1599, peak |-> 0]>>
        /\ outcome[t].kind = "TooShortAudioError"

\* C5: transcribe_chunks rejects an empty, too short or silent waveform with
\* the validation error, without a call of the acoustic model.
C5_ChunkedValidatesFirst ==
    [][\A t \in Threads :
          BodyStep(t, "transcribe_chunks") =>
              LET a == audio'[t][1]
              IN  (a.n * 10 < 16000 \/ a.peak < 1000) =>
                      /\ outcome'[t].kind \in
                            {"EmptyAudioError", "TooShortAudioError", "SilentAudioError"}
                      /\ inferCount' = inferCount
     ]_vars

\* C2: loading is at most once: no two callers are inside the load body at
\* once, none is inside it once the model is loaded, and no inference runs
\* on a model whose initialisation is incomplete.
C2_AtMostOnceLoad ==
    /\ Cardinality({t \in Threads : pc[t] \in LoadBodyPcs}) <= 1
    /\ loaded => \A t \in Threads : pc[t] \notin LoadBodyPcs
    /\ ~usedPartial

\* C3: a load that fails, with no other caller active, leaves the service
\* unloaded with no processor and no model kept.
C3_FailedLoadLeavesNothing ==
    [][\A t \in Threads :
          ( /\ pc[t] \in LoadBodyPcs
            /\ pc'[t] = "done"
            /\ outcome'[t].kind = "ModelLoadError"
            /\ \A u \in Threads \ {t} : pc[u] = "idle"
            /\ ~loaded )
          => (~loaded' /\ processor' = "None" /\ ~model'.set)
     ]_vars

\* C6: whenever the model is loaded and no load is in progress, the shared
\* model resides on self.device, whatever transcribe_chunks calls were made.
C6_ModelStaysOnDevice ==
    (loaded /\ \A t \in Threads : pc[t] \notin LoadBodyPcs) => model.dev = device

\* C9: a transcribe or transcribe_chunks call in which validation, loading or
\* inference failed, or whose result carried no text, does not return a text.
C9_NoTextForFailure ==
    \A t \in Threads :
        ( /\ pc[t] = "done"
          /\ op[t] \in {"transcribe", "transcribe_chunks"}
          /\ outcome[t].fault # "none" )
        => outcome[t].kind # "ok"

====
